---- MODULE Spec2Model ----
(***************************************************************************)
(* Model of sensat/core.py: the SenSat orchestrator (connect, search,      *)
(* filter, download, decompress) over an abstract catalogue and an         *)
(* abstract file system.  Python strings are sequences of one-character    *)
(* strings, so that slicing, split, replace and the regular expression of  *)
(* _validateTile are computed the way the code computes them.              *)
(***************************************************************************)
EXTENDS Integers, Sequences, FiniteSets, TLC

VARIABLES
    cdse_api,   \* the module-level global of line 106: "unset" or "creds"
    pc,         \* the position of the run: of the orchestrator, or of a single call
    args,       \* the arguments of the run
    tile_i,     \* the index of the tile of the loop of line 45
    products,   \* the dataframe returned by _search
    zip_files,  \* the list returned by _download
    fs,         \* the file system
    queries,    \* the queries sent to the remote catalogue
    err,        \* the exception that ended the last call, or "none"
    runs,       \* the record of the calls of _download and _decompress made so far
    ret         \* the function called, its argument and its result, for a single call

vars == <<cdse_api, pc, args, tile_i, products, zip_files, fs, queries, err, runs, ret>>

(***************************************************************************)
(* Bounds of the model.                                                    *)
(***************************************************************************)
MaxTileLen == 6
MaxSizes == 2
MaxProducts == 2
MaxZips == 2
MaxTiles == 2
MaxRuns == 2

(***************************************************************************)
(* Python str operations.                                                  *)
(***************************************************************************)
Digits == {"0", "1", "2", "3", "4", "5", "6", "7", "8", "9"}

Uppers == {"A", "B", "C", "D", "E", "F", "G", "H", "I", "J", "K", "L", "M",
           "N", "O", "P", "Q", "R", "S", "T", "U", "V", "W", "X", "Y", "Z"}

NL == "\n"

DotSAFE == <<".", "S", "A", "F", "E">>

DotZip == <<".", "z", "i", "p">>

MSIL1C == <<"_", "M", "S", "I", "L", "1", "C", "_">>

MSIL2A == <<"_", "M", "S", "I", "L", "2", "A", "_">>

\* s[i:i+len(sub)] == sub
MatchAt(s, sub, i) ==
    /\ i + Len(sub) - 1 <= Len(s)
    /\ SubSeq(s, i, i + Len(sub) - 1) = sub

\* sub in s
Contains(s, sub) == \E i \in 1..Len(s) : MatchAt(s, sub, i)

RECURSIVE ReplaceFrom(_, _, _, _)
ReplaceFrom(s, old, new, i) ==
    IF i > Len(s) THEN <<>>
    ELSE IF MatchAt(s, old, i) THEN new \o ReplaceFrom(s, old, new, i + Len(old))
    ELSE <<s[i]>> \o ReplaceFrom(s, old, new, i + 1)

\* s.replace(old, new)
Replace(s, old, new) == ReplaceFrom(s, old, new, 1)

\* s[:-n]
DropLast(s, n) == IF Len(s) <= n THEN <<>> ELSE SubSeq(s, 1, Len(s) - n)

\* s[-n:]
TakeLast(s, n) == IF Len(s) <= n THEN s ELSE SubSeq(s, Len(s) - n + 1, Len(s))

RECURSIVE RStrip(_, _)
\* s.rstrip(c)
RStrip(s, c) ==
    IF Len(s) > 0 /\ s[Len(s)] = c THEN RStrip(SubSeq(s, 1, Len(s) - 1), c) ELSE s

\* index of the last occurrence of the character c in s, 0 when there is none
LastIndexOf(s, c) ==
    IF \E i \in 1..Len(s) : s[i] = c
    THEN CHOOSE i \in 1..Len(s) : s[i] = c /\ \A j \in (i + 1)..Len(s) : s[j] # c
    ELSE 0

\* s.split(c)[-1]
SplitLast(s, c) == SubSeq(s, LastIndexOf(s, c) + 1, Len(s))

\* index of the first occurrence of the character c in s, 0 when there is none
FirstIndexOf(s, c) ==
    IF \E i \in 1..Len(s) : s[i] = c
    THEN CHOOSE i \in 1..Len(s) : s[i] = c /\ \A j \in 1..(i - 1) : s[j] # c
    ELSE 0

RECURSIVE Split(_, _)
\* s.split(c)
Split(s, c) ==
    IF FirstIndexOf(s, c) = 0 THEN <<s>>
    ELSE <<SubSeq(s, 1, FirstIndexOf(s, c) - 1)>>
         \o Split(SubSeq(s, FirstIndexOf(s, c) + 1, Len(s)), c)

\* '%s/%s' % (a, b)
Slashed(a, b) == a \o <<"/">> \o b

LowerOf(c) ==
    CASE c = "K" -> "k" [] c = "M" -> "m" [] c = "G" -> "g" [] c = "B" -> "b"
      [] c = "I" -> "i" [] c = "X" -> "x" [] c = "T" -> "t"
      [] OTHER -> c

\* s.lower() (on the alphabet of the size suffixes)
Lower(s) == [i \in 1..Len(s) |-> LowerOf(s[i])]

RECURSIVE SeqsUpTo(_, _)
\* all sequences over S of length at most n
SeqsUpTo(S, n) ==
    IF n = 0 THEN {<<>>}
    ELSE SeqsUpTo(S, n - 1)
         \cup {Append(s, x) : s \in {t \in SeqsUpTo(S, n - 1) : Len(t) = n - 1}, x \in S}

Range(s) == {s[i] : i \in 1..Len(s)}

NoDup(s) == \A i, j \in 1..Len(s) : s[i] = s[j] => i = j

(***************************************************************************)
(* _validateTile: re.match("[0-9]{2}[A-Z]{3}$", tile).  re.match anchors   *)
(* at the start; "$" matches at the end of the string and also just before *)
(* a newline that is the last character of the string.                     *)
(***************************************************************************)
validateTile(tile) ==
    /\ Len(tile) >= 5
    /\ tile[1] \in Digits /\ tile[2] \in Digits
    /\ tile[3] \in Uppers /\ tile[4] \in Uppers /\ tile[5] \in Uppers
    /\ \/ Len(tile) = 5
       \/ Len(tile) = 6 /\ tile[6] = NL

(***************************************************************************)
(* Decimal numbers m * 10^e stand for the Python floats of the size        *)
(* computation.                                                            *)
(***************************************************************************)
RECURSIVE Pow10(_)
Pow10(n) == IF n <= 0 THEN 1 ELSE 10 * Pow10(n - 1)

Dec(m, e) == [m |-> m, e |-> e]

MinOf(a, b) == IF a <= b THEN a ELSE b

\* a >= b
DecGE(a, b) ==
    a.m * Pow10(a.e - MinOf(a.e, b.e)) >= b.m * Pow10(b.e - MinOf(a.e, b.e))

DecEq(a, b) == DecGE(a, b) /\ DecGE(b, a)

DigitVal(c) ==
    CASE c = "0" -> 0 [] c = "1" -> 1 [] c = "2" -> 2 [] c = "3" -> 3 [] c = "4" -> 4
      [] c = "5" -> 5 [] c = "6" -> 6 [] c = "7" -> 7 [] c = "8" -> 8 [] c = "9" -> 9

RECURSIVE DigitsVal(_)
DigitsVal(s) ==
    IF Len(s) = 0 THEN 0
    ELSE 10 * DigitsVal(SubSeq(s, 1, Len(s) - 1)) + DigitVal(s[Len(s)])

\* float(s) for a decimal literal s: digits with at most one "."
ParseFloat(s) ==
    IF FirstIndexOf(s, ".") = 0 THEN Dec(DigitsVal(s), 0)
    ELSE Dec(DigitsVal(SubSeq(s, 1, FirstIndexOf(s, ".") - 1)
                       \o SubSeq(s, FirstIndexOf(s, ".") + 1, Len(s))),
             0 - (Len(s) - FirstIndexOf(s, ".")))

\* int(x) for a float x >= 0: truncation
IntOfFloat(x) == x.m \div Pow10(0 - x.e)

(***************************************************************************)
(* _get_filesize, lines 166-195.  col is the column                        *)
(* 'properties.services.download.size' of the dataframe.                   *)
(***************************************************************************)
kb == <<"k", "b">>

kib == <<"k", "i", "b">>

mb == <<"m", "b">>

mib == <<"m", "i", "b">>

gb == <<"g", "b">>

gib == <<"g", "i", "b">>

\* line 176
SizeOf(str) == IntOfFloat(ParseFloat(Split(str, " ")[1]))

\* lines 178-181
SuffixOf(str) == IF Len(Split(str, " ")) > 1 THEN Lower(Split(str, " ")[2]) ELSE mb

\* lines 186-193
SizeMb(this_size, this_suffix) ==
    IF this_suffix = kb \/ this_suffix = kib THEN Dec(this_size, -3)
    ELSE IF this_suffix = mb \/ this_suffix = mib THEN Dec(this_size, 0)
    ELSE IF this_suffix = gb \/ this_suffix = gib THEN Dec(this_size, 3)
    ELSE Dec(this_size, -6)

get_filesize(col) == [i \in 1..Len(col) |-> SizeMb(SizeOf(col[i]), SuffixOf(col[i]))]

(***************************************************************************)
(* _format_query_date, lines 112-163.  A date argument is abstracted to    *)
(* its class: None, a date object, a non-string, or a string that is "*",  *)
(* an ISO date, a YYYYMMDD date or anything else; day is the day it names. *)
(***************************************************************************)
format_query_date(in_date) ==
    CASE in_date.kind = "None" -> [err |-> "none", val |-> [kind |-> "*", day |-> 0]]
      [] in_date.kind = "date" -> [err |-> "none", val |-> [kind |-> "iso", day |-> in_date.day]]
      [] in_date.kind = "nonstr" -> [err |-> "ValueError", val |-> [kind |-> "*", day |-> 0]]
      [] in_date.kind = "str*" -> [err |-> "none", val |-> [kind |-> "*", day |-> 0]]
      [] in_date.kind = "strISO" -> [err |-> "none", val |-> [kind |-> "iso", day |-> in_date.day]]
      [] in_date.kind = "strYMD" -> [err |-> "none", val |-> [kind |-> "iso", day |-> in_date.day]]
      [] OTHER -> [err |-> "ValueError", val |-> [kind |-> "*", day |-> 0]]

(***************************************************************************)
(* The remote catalogue (query_features of cdsetool): the features of the  *)
(* catalogue that match the tile, the product type, the cloud cover range  *)
(* and the date window of the query.                                       *)
(***************************************************************************)
S2MSI == <<"S", "2", "M", "S", "I">>

L1C == <<"1", "C">>

L2A == <<"2", "A">>

Matches(f, q) ==
    /\ f.tile = q.tileId
    /\ f.type = q.productType
    /\ q.cloudCover[1] <= f.cloud /\ f.cloud <= q.cloudCover[2]
    /\ (q.startDate.kind = "*" \/ q.startDate.day <= f.date)
    /\ (q.completionDate.kind = "*" \/ f.date <= q.completionDate.day)

query_features(catalogue, q) == SelectSeq(catalogue, LAMBDA f : Matches(f, q))

(***************************************************************************)
(* _search, lines 198-249.  a holds the arguments of the call.  The result *)
(* is the error raised (or "none"), the queries sent to the catalogue and  *)
(* the dataframe returned.                                                 *)
(***************************************************************************)
\* lines 228-234
QueryOf(a) ==
    [tileId |-> a.tile,
     startDate |-> format_query_date(a.start).val,
     completionDate |-> format_query_date(a.end).val,
     productType |-> S2MSI \o a.level,
     cloudCover |-> <<0, a.maxcloud>>]

\* line 243
WithFilesize(df) ==
    [i \in 1..Len(df) |->
        [title |-> df[i].title, tile |-> df[i].tile, type |-> df[i].type,
         cloud |-> df[i].cloud, date |-> df[i].date, size |-> df[i].size,
         filesize_mb |-> get_filesize([j \in 1..Len(df) |-> df[j].size])[i]]]

\* KeepRow with the comparison of line 245 reversed
KeepRow_reversed(row, minsize) == DecGE(minsize, row.filesize_mb)

\* line 245
KeepRow(row, minsize) == DecGE(row.filesize_mb, minsize)

\* lines 241-249
FilterBySize(df, minsize) ==
    IF Len(df) = 0 THEN df
    ELSE SelectSeq(WithFilesize(df), LAMBDA row : KeepRow(row, minsize))

search(api, a) ==
    IF api = "unset" THEN [err |-> "AssertionError", queries |-> <<>>, df |-> <<>>]
    ELSE IF ~validateTile(a.tile) THEN [err |-> "AssertionError", queries |-> <<>>, df |-> <<>>]
    ELSE IF a.level \notin {L1C, L2A} THEN [err |-> "AssertionError", queries |-> <<>>, df |-> <<>>]
    ELSE IF format_query_date(a.start).err # "none"
         THEN [err |-> format_query_date(a.start).err, queries |-> <<>>, df |-> <<>>]
    ELSE IF format_query_date(a.end).err # "none"
         THEN [err |-> format_query_date(a.end).err, queries |-> <<>>, df |-> <<>>]
    ELSE [err |-> "none", queries |-> <<QueryOf(a)>>,
          df |-> FilterBySize(query_features(a.catalogue, QueryOf(a)), a.minsize)]

(***************************************************************************)
(* The file system: a function from the normalised paths that exist to     *)
(* what is there: "dir" (a directory, such as an extracted .SAFE), "zip"   *)
(* (a file that is a well-formed archive) or "bad" (a file that is not).   *)
(***************************************************************************)
RECURSIVE Collapse(_)
\* a path with runs of "/" collapsed
Collapse(p) ==
    IF Len(p) < 2 THEN p
    ELSE IF p[1] = "/" /\ p[2] = "/" THEN Collapse(Tail(p))
    ELSE <<p[1]>> \o Collapse(Tail(p))

\* the file system entry a path names
NormPath(p) == IF Len(Collapse(p)) > 1 THEN RStrip(Collapse(p), "/") ELSE Collapse(p)

\* os.path.exists(p)
Exists(f, p) == NormPath(p) \in DOMAIN f

\* os.path.isdir(p)
IsDir(f, p) == Exists(f, p) /\ f[NormPath(p)] = "dir"

\* zipfile.is_zipfile(p): false for a missing file, a directory or a malformed file
is_zipfile(f, p) == Exists(f, p) /\ f[NormPath(p)] = "zip"

WriteEntry(f, p, kind) ==
    [q \in DOMAIN f \cup {NormPath(p)} |-> IF q = NormPath(p) THEN kind ELSE f[q]]

RemoveEntry(f, p) == [q \in DOMAIN f \ {NormPath(p)} |-> f[q]]

\* os.makedirs(p) for a path p whose parent exists
makedirs(f, p) == WriteEntry(f, p, "dir")

(***************************************************************************)
(* download_feature of cdsetool: it either writes the archive              *)
(* <output_dir>/<title with .SAFE replaced by .zip> and returns, or raises *)
(* and writes nothing.  The archive written is well-formed ("ok") or not   *)
(* ("corrupt").                                                            *)
(***************************************************************************)
Outcomes == {"ok", "corrupt", "fail"}

download_feature(f, feature, output_dir, outcome) ==
    IF outcome = "fail" THEN f
    ELSE WriteEntry(f, Slashed(RStrip(output_dir, "/"), Replace(feature.title, DotSAFE, DotZip)),
                    IF outcome = "ok" THEN "zip" ELSE "bad")

(***************************************************************************)
(* _download, lines 265-310.  st is the state of the loop: the file        *)
(* system, downloaded_files, the titles download_feature was called for,   *)
(* the titles for which it raised and the number of products examined.     *)
(***************************************************************************)
\* lines 293 and 306
ArchivePath(output_dir, filename) ==
    Replace(Slashed(RStrip(output_dir, "/"), filename), DotSAFE, DotZip)

\* download_one with the archive looked for under filename[:-4] + '.zip'
download_one_slice4(st, feature, output_dir, outcome) ==
    IF Exists(st.fs, Slashed(output_dir, DropLast(feature.title, 4) \o DotZip))
    THEN [st EXCEPT !.downloaded_files = Append(@, ArchivePath(output_dir, feature.title)),
                    !.examined = @ + 1]
    ELSE IF Exists(st.fs, Slashed(output_dir, feature.title))
    THEN [st EXCEPT !.examined = @ + 1]
    ELSE IF outcome = "fail"
    THEN [st EXCEPT !.calls = Append(@, feature.title),
                    !.failed = Append(@, feature.title),
                    !.examined = @ + 1]
    ELSE [st EXCEPT !.fs = download_feature(st.fs, feature, output_dir, outcome),
                    !.downloaded_files = Append(@, ArchivePath(output_dir, feature.title)),
                    !.calls = Append(@, feature.title),
                    !.examined = @ + 1]

\* download_one with the archive path also returned for an extracted product
download_one_returns_extracted(st, feature, output_dir, outcome) ==
    IF Exists(st.fs, Slashed(output_dir, DropLast(feature.title, 5) \o DotZip))
    THEN [st EXCEPT !.downloaded_files = Append(@, ArchivePath(output_dir, feature.title)),
                    !.examined = @ + 1]
    ELSE IF Exists(st.fs, Slashed(output_dir, feature.title))
    THEN [st EXCEPT !.downloaded_files = Append(@, ArchivePath(output_dir, feature.title)),
                    !.examined = @ + 1]
    ELSE IF outcome = "fail"
    THEN [st EXCEPT !.calls = Append(@, feature.title),
                    !.failed = Append(@, feature.title),
                    !.examined = @ + 1]
    ELSE [st EXCEPT !.fs = download_feature(st.fs, feature, output_dir, outcome),
                    !.downloaded_files = Append(@, ArchivePath(output_dir, feature.title)),
                    !.calls = Append(@, feature.title),
                    !.examined = @ + 1]

\* download_one with the archive path recorded before the download is attempted
download_one_returns_failed(st, feature, output_dir, outcome) ==
    IF Exists(st.fs, Slashed(output_dir, DropLast(feature.title, 5) \o DotZip))
    THEN [st EXCEPT !.downloaded_files = Append(@, ArchivePath(output_dir, feature.title)),
                    !.examined = @ + 1]
    ELSE IF Exists(st.fs, Slashed(output_dir, feature.title))
    THEN [st EXCEPT !.examined = @ + 1]
    ELSE IF outcome = "fail"
    THEN [st EXCEPT !.downloaded_files = Append(@, ArchivePath(output_dir, feature.title)),
                    !.calls = Append(@, feature.title),
                    !.failed = Append(@, feature.title),
                    !.examined = @ + 1]
    ELSE [st EXCEPT !.fs = download_feature(st.fs, feature, output_dir, outcome),
                    !.downloaded_files = Append(@, ArchivePath(output_dir, feature.title)),
                    !.calls = Append(@, feature.title),
                    !.examined = @ + 1]

\* lines 287-308: the body of the loop for one product
download_one(st, feature, output_dir, outcome) ==
    IF Exists(st.fs, Slashed(output_dir, DropLast(feature.title, 5) \o DotZip))
    THEN [st EXCEPT !.downloaded_files = Append(@, ArchivePath(output_dir, feature.title)),
                    !.examined = @ + 1]
    ELSE IF Exists(st.fs, Slashed(output_dir, feature.title))
    THEN [st EXCEPT !.examined = @ + 1]
    ELSE IF outcome = "fail"
    THEN [st EXCEPT !.calls = Append(@, feature.title),
                    !.failed = Append(@, feature.title),
                    !.examined = @ + 1]
    ELSE [st EXCEPT !.fs = download_feature(st.fs, feature, output_dir, outcome),
                    !.downloaded_files = Append(@, ArchivePath(output_dir, feature.title)),
                    !.calls = Append(@, feature.title),
                    !.examined = @ + 1]

RECURSIVE download_loop(_, _, _, _, _)
\* line 286
download_loop(st, products_df, output_dir, outcomes, i) ==
    IF i > Len(products_df) THEN st
    ELSE download_loop(download_one(st, products_df[i], output_dir, outcomes[i]),
                       products_df, output_dir, outcomes, i + 1)

\* the call: err is the exception that leaves it, or "none"
download(f, products_df, output_dir, outcomes) ==
    IF ~IsDir(f, output_dir)
    THEN [err |-> "AssertionError", fs |-> f, downloaded_files |-> <<>>, calls |-> <<>>,
          failed |-> <<>>, examined |-> 0]
    ELSE IF Len(products_df) = 0
    THEN [err |-> "RuntimeError", fs |-> f, downloaded_files |-> <<>>, calls |-> <<>>,
          failed |-> <<>>, examined |-> 0]
    ELSE download_loop([err |-> "none", fs |-> f, downloaded_files |-> <<>>, calls |-> <<>>,
                        failed |-> <<>>, examined |-> 0],
                       products_df, output_dir, outcomes, 1)

(***************************************************************************)
(* _removeZip, lines 66-78.                                                *)
(***************************************************************************)
removeZip(f, zip_file) ==
    IF ~Contains(zip_file, MSIL1C) THEN [err |-> "AssertionError", fs |-> f]
    ELSE IF TakeLast(SplitLast(zip_file, "/"), 4) # DotZip THEN [err |-> "AssertionError", fs |-> f]
    ELSE IF ~Exists(f, zip_file) THEN [err |-> "FileNotFoundError", fs |-> f]
    ELSE [err |-> "none", fs |-> RemoveEntry(f, zip_file)]

(***************************************************************************)
(* _decompress, lines 313-348.  st is the state of the loop: the file      *)
(* system, the exception raised (or "none"), the archives extracted, the   *)
(* archives deleted and the number of archives processed to the end.       *)
(***************************************************************************)
\* line 333
SafePath(output_dir, zip_file) ==
    Slashed(output_dir, Replace(SplitLast(zip_file, "/"), DotZip, DotSAFE))

\* lines 340-341: the archive of a product holds its .SAFE directory
extractall(f, zip_file, output_dir) == WriteEntry(f, SafePath(output_dir, zip_file), "dir")

\* line 348
remove_after(st, zip_file, remove) ==
    IF ~remove THEN [st EXCEPT !.processed = @ + 1]
    ELSE IF removeZip(st.fs, zip_file).err # "none"
    THEN [st EXCEPT !.err = removeZip(st.fs, zip_file).err]
    ELSE [st EXCEPT !.fs = removeZip(st.fs, zip_file).fs,
                    !.deleted = Append(@, zip_file),
                    !.processed = @ + 1]

\* decompress_one with the deletion of line 348 outside the else of line 337
decompress_one_remove_outside(st, zip_file, output_dir, remove) ==
    IF Exists(st.fs, SafePath(output_dir, zip_file))
    THEN remove_after(st, zip_file, remove)
    ELSE IF is_zipfile(st.fs, zip_file)
    THEN remove_after([st EXCEPT !.fs = extractall(st.fs, zip_file, output_dir),
                                 !.extracted = Append(@, zip_file)],
                      zip_file, remove)
    ELSE IF removeZip(st.fs, zip_file).err # "none"
    THEN [st EXCEPT !.err = removeZip(st.fs, zip_file).err]
    ELSE remove_after([st EXCEPT !.fs = removeZip(st.fs, zip_file).fs,
                                 !.deleted = Append(@, zip_file)],
                      zip_file, remove)

\* lines 333-348: the body of the loop for one archive
decompress_one(st, zip_file, output_dir, remove) ==
    IF Exists(st.fs, SafePath(output_dir, zip_file))
    THEN [st EXCEPT !.processed = @ + 1]
    ELSE IF is_zipfile(st.fs, zip_file)
    THEN remove_after([st EXCEPT !.fs = extractall(st.fs, zip_file, output_dir),
                                 !.extracted = Append(@, zip_file)],
                      zip_file, remove)
    ELSE IF removeZip(st.fs, zip_file).err # "none"
    THEN [st EXCEPT !.err = removeZip(st.fs, zip_file).err]
    ELSE remove_after([st EXCEPT !.fs = removeZip(st.fs, zip_file).fs,
                                 !.deleted = Append(@, zip_file)],
                      zip_file, remove)

RECURSIVE decompress_loop(_, _, _, _, _)
\* line 330
decompress_loop(st, zip_files_, output_dir, remove, i) ==
    IF i > Len(zip_files_) \/ st.err # "none" THEN st
    ELSE decompress_loop(decompress_one(st, zip_files_[i], output_dir, remove),
                         zip_files_, output_dir, remove, i + 1)

\* the call; lines 326-327 check every name before the loop starts
decompress(f, zip_files_, output_dir, remove) ==
    IF \E i \in 1..Len(zip_files_) : TakeLast(zip_files_[i], 4) # DotZip
    THEN [fs |-> f, err |-> "AssertionError", extracted |-> <<>>, deleted |-> <<>>, processed |-> 0]
    ELSE decompress_loop([fs |-> f, err |-> "none", extracted |-> <<>>, deleted |-> <<>>,
                          processed |-> 0],
                         zip_files_, output_dir, remove, 1)

(***************************************************************************)
(* The inputs the specifications draw from.                                *)
(***************************************************************************)
TitleA == <<"A">> \o MSIL1C \o <<"1">> \o DotSAFE

TitleB == <<"B">> \o MSIL1C \o <<"2">> \o DotSAFE

TitleC == <<"C">> \o MSIL2A \o <<"3">> \o DotSAFE

TitleD == <<"D">> \o MSIL1C \o <<"4">> \o DotSAFE

TitleE == <<"E">> \o MSIL1C \o <<"5">> \o DotSAFE

Titles == {TitleA, TitleB, TitleC}

T36KWA == <<"3", "6", "K", "W", "A">>

T39STD == <<"3", "9", "S", "T", "D">>

Str10MB == <<"1", "0", " ", "M", "B">>

Str30MB == <<"3", "0", " ", "M", "B">>

Str50MB == <<"5", "0", " ", "M", "B">>

Str2GB == <<"2", " ", "G", "B">>

Str512KB == <<"5", "1", "2", " ", "K", "B">>

Feature(title, tile, level, cloud, date, size) ==
    [title |-> title, tile |-> tile, type |-> S2MSI \o level, cloud |-> cloud,
     date |-> date, size |-> size]

\* what the remote catalogue holds in the runs of the orchestrator
Catalogue ==
    <<Feature(TitleA, T36KWA, L1C, 10, 5, Str30MB),
      Feature(TitleB, T36KWA, L1C, 80, 6, Str50MB),
      Feature(TitleC, T36KWA, L2A, 10, 5, Str30MB),
      Feature(TitleD, T36KWA, L1C, 10, 5, Str10MB),
      Feature(TitleE, T39STD, L1C, 10, 5, Str2GB)>>

\* the product lists handed to a call of _download: distinct catalogue records
DownloadFeatures ==
    {Feature(TitleA, T36KWA, L1C, 10, 5, Str30MB),
     Feature(TitleB, T36KWA, L1C, 80, 6, Str50MB),
     Feature(TitleC, T36KWA, L2A, 10, 5, Str30MB)}

ProductLists == {l \in SeqsUpTo(DownloadFeatures, MaxProducts) : NoDup(l)}

OutDir == <<"o">>

OutDirs == {<<"o">>, <<"o", "/">>}

ZipOf(dir, title) == Slashed(dir, DropLast(title, 5) \o DotZip)

\* a destination directory holding, for each title, an archive (well-formed or
\* not) or none, and an extracted form or none
MkFs(dir, z, x) ==
    [p \in {NormPath(dir)} \cup {ZipOf(dir, t) : t \in {u \in DOMAIN z : z[u] # "none"}}
           \cup {Slashed(dir, t) : t \in {u \in DOMAIN x : x[u]}} |->
        IF \E t \in DOMAIN z : p = ZipOf(dir, t) THEN z[CHOOSE t \in DOMAIN z : p = ZipOf(dir, t)]
        ELSE "dir"]

EmptyFs == [p \in {} |-> "dir"]

DirContents(dir, titles) ==
    {MkFs(dir, z, x) : z \in [titles -> {"none", "zip", "bad"}], x \in [titles -> BOOLEAN]}

ZipLists ==
    {l \in SeqsUpTo({ZipOf(OutDir, t) : t \in Titles} \cup {Slashed(OutDir, TitleA)}, MaxZips) :
        NoDup(l)}

TileAlphabet == {"3", "K", "k", NL}

TileStrings == SeqsUpTo(TileAlphabet, MaxTileLen)

TileInputs ==
    {T36KWA, T39STD, <<"3", "K", "W", "A">>, <<"3", "6", "k", "w", "a">>,
     T36KWA \o <<NL>>, T36KWA \o <<"A">>}

Levels == {L1C, L2A, <<"3", "B">>}

DateInputs ==
    {[kind |-> "None", day |-> 0], [kind |-> "strYMD", day |-> 1], [kind |-> "strYMD", day |-> 9],
     [kind |-> "strBad", day |-> 0]}

SizeNumbers ==
    {<<"1", "0">>, <<"3", "0">>, <<"5", "1", "2">>, <<"2">>, <<"5">>, <<"1", ".", "5">>}

SizeUnits == {<<"K", "B">>, <<"K", "i", "B">>, <<"M", "B">>, <<"G", "B">>, <<"X", "B">>, <<"g", "i", "b">>}

SizeStrings == {n \o <<" ">> \o u : n \in SizeNumbers, u \in SizeUnits} \cup SizeNumbers

FilterSizes == {Str10MB, Str30MB, Str50MB, Str512KB, <<"1", ".", "5", " ", "G", "B">>}

MinSizes == {Dec(0, 0), Dec(25, 0), Dec(15, -1)}

MaxClouds == {50, 100}

\* a catalogue of three products of tile 36KWA with the sizes given
CatalogueOf(sizes) ==
    <<Feature(TitleA, T36KWA, L1C, 10, 5, sizes[1]),
      Feature(TitleB, T36KWA, L1C, 80, 6, sizes[2]),
      Feature(TitleD, T36KWA, L1C, 10, 5, sizes[3])>>

NoArgs == [none |-> TRUE]

NoRet == [fn |-> "none"]

(***************************************************************************)
(* SpecSearch: one call of a function of the search stage.                 *)
(***************************************************************************)
InitSearch ==
    /\ cdse_api \in {"unset", "creds"}
    /\ pc = "idle"
    /\ args = NoArgs
    /\ tile_i = 0
    /\ products = <<>>
    /\ zip_files = <<>>
    /\ fs = EmptyFs
    /\ queries = <<>>
    /\ err = "none"
    /\ runs = <<>>
    /\ ret = NoRet

\* _connectToAPI, lines 95-109
connectToAPI_call ==
    /\ pc = "idle"
    /\ cdse_api = "unset"
    /\ cdse_api' = "creds"
    /\ UNCHANGED <<pc, args, tile_i, products, zip_files, fs, queries, err, runs, ret>>

validateTile_call ==
    /\ pc = "idle"
    /\ \E tile \in TileStrings :
          ret' = [fn |-> "validateTile", arg |-> tile, val |-> validateTile(tile)]
    /\ pc' = "returned"
    /\ UNCHANGED <<cdse_api, args, tile_i, products, zip_files, fs, queries, err, runs>>

get_filesize_call ==
    /\ pc = "idle"
    /\ \E col \in SeqsUpTo(SizeStrings, MaxSizes) :
          ret' = [fn |-> "get_filesize", arg |-> col, val |-> get_filesize(col)]
    /\ pc' = "returned"
    /\ UNCHANGED <<cdse_api, args, tile_i, products, zip_files, fs, queries, err, runs>>

search_call ==
    /\ pc = "idle"
    /\ \E tile \in TileInputs, level \in Levels, start \in DateInputs,
          maxcloud \in MaxClouds, minsize \in MinSizes, sizes \in [1..3 -> FilterSizes] :
          LET a == [tile |-> tile, level |-> level, start |-> start,
                    end |-> [kind |-> "strYMD", day |-> 9], maxcloud |-> maxcloud,
                    minsize |-> minsize, catalogue |-> CatalogueOf(sizes)]
          IN /\ ret' = [fn |-> "search", arg |-> a, api |-> cdse_api]
             /\ queries' = search(cdse_api, a).queries
             /\ err' = search(cdse_api, a).err
             /\ products' = search(cdse_api, a).df
    /\ pc' = "returned"
    /\ UNCHANGED <<cdse_api, args, tile_i, zip_files, fs, runs>>

NextSearch == connectToAPI_call \/ validateTile_call \/ get_filesize_call \/ search_call

SpecSearch == InitSearch /\ [][NextSearch]_vars

(***************************************************************************)
(* SpecDownload: _download called up to MaxRuns times in a row with the    *)
(* same product list and the same destination.                             *)
(***************************************************************************)
InitDownload ==
    /\ cdse_api = "creds"
    /\ pc = "idle"
    /\ \E l \in ProductLists, d \in OutDirs : args = [products_df |-> l, output_dir |-> d]
    /\ tile_i = 0
    /\ products = <<>>
    /\ zip_files = <<>>
    /\ fs \in {EmptyFs} \cup DirContents(OutDir, Titles)
    /\ queries = <<>>
    /\ err = "none"
    /\ runs = <<>>
    /\ ret = NoRet

download_call ==
    /\ pc = "idle"
    /\ Len(runs) < MaxRuns
    /\ \E outcomes \in [1..Len(args.products_df) -> Outcomes] :
          \E r \in {download(fs, args.products_df, args.output_dir, outcomes)} :
             /\ fs' = r.fs
             /\ err' = r.err
             /\ zip_files' = r.downloaded_files
             /\ runs' = Append(runs, [before |-> fs, after |-> r.fs, err |-> r.err,
                                      returned |-> r.downloaded_files, calls |-> r.calls,
                                      failed |-> r.failed, examined |-> r.examined])
    /\ UNCHANGED <<cdse_api, pc, args, tile_i, products, queries, ret>>

NextDownload == download_call

SpecDownload == InitDownload /\ [][NextDownload]_vars

(***************************************************************************)
(* SpecDecompress: _decompress called up to MaxRuns times in a row with    *)
(* the same archive list and the same destination.                         *)
(***************************************************************************)
InitDecompress ==
    /\ cdse_api = "creds"
    /\ pc = "idle"
    /\ \E l \in ZipLists, d \in OutDirs : args = [zip_files |-> l, output_dir |-> d]
    /\ tile_i = 0
    /\ products = <<>>
    /\ zip_files = <<>>
    /\ fs \in DirContents(OutDir, Titles)
    /\ queries = <<>>
    /\ err = "none"
    /\ runs = <<>>
    /\ ret = NoRet

decompress_call ==
    /\ pc = "idle"
    /\ Len(runs) < MaxRuns
    /\ \E remove \in BOOLEAN :
          \E r \in {decompress(fs, args.zip_files, args.output_dir, remove)} :
             /\ fs' = r.fs
             /\ err' = r.err
             /\ runs' = Append(runs, [before |-> fs, after |-> r.fs, err |-> r.err,
                                      remove |-> remove, extracted |-> r.extracted,
                                      deleted |-> r.deleted, processed |-> r.processed])
    /\ UNCHANGED <<cdse_api, pc, args, tile_i, products, zip_files, queries, ret>>

NextDecompress == decompress_call

SpecDecompress == InitDecompress /\ [][NextDecompress]_vars

(***************************************************************************)
(* Spec: one run of the orchestrator SenSat.__init__, lines 20-63.         *)
(***************************************************************************)
OrchTiles == {T36KWA, T39STD, <<"3", "K", "W", "A">>}

OrchFs ==
    {makedirs(EmptyFs, OutDir)}
    \cup {makedirs(MkFs(Slashed(OutDir, T36KWA), z, x), OutDir) :
             z \in {[t \in {TitleA} |-> "zip"], [t \in {TitleA} |-> "bad"]},
             x \in {[t \in {TitleA} |-> FALSE]}}
    \cup {makedirs(MkFs(Slashed(OutDir, T36KWA), [t \in {TitleA} |-> "none"],
                        [t \in {TitleA} |-> TRUE]), OutDir)}

\* line 43
TileList(tiles) == IF tiles.kind = "str" THEN <<tiles.val>> ELSE tiles.val

Init ==
    /\ cdse_api = "unset"
    /\ pc = "connect"
    /\ \E tiles \in {[kind |-> "str", val |-> t] : t \in OrchTiles}
                    \cup {[kind |-> "list", val |-> l] : l \in SeqsUpTo(OrchTiles, MaxTiles)},
          level \in Levels, start \in {[kind |-> "None", day |-> 0], [kind |-> "strYMD", day |-> 6]},
          maxcloud \in MaxClouds, minsize \in {Dec(0, 0), Dec(25, 0)}, remove \in BOOLEAN :
          args = [tiles |-> tiles, level |-> level, start |-> start,
                  end |-> [kind |-> "strYMD", day |-> 9], maxcloud |-> maxcloud,
                  minsize |-> minsize, output_dir |-> OutDir, remove |-> remove]
    /\ tile_i = 0
    /\ products = <<>>
    /\ zip_files = <<>>
    /\ fs \in OrchFs
    /\ queries = <<>>
    /\ err = "none"
    /\ runs = <<>>
    /\ ret = NoRet

\* the tile of the current iteration of the loop of line 45
CurrentTile == TileList(args.tiles)[tile_i]

\* the directory of the current tile, '%s/%s' % (output_dir, tile)
TileDir == Slashed(args.output_dir, CurrentTile)

\* the next iteration of the loop of line 45, or the end of the run
NextTile ==
    IF tile_i < Len(TileList(args.tiles))
    THEN /\ tile_i' = tile_i + 1
         /\ pc' = "search"
    ELSE /\ tile_i' = tile_i
         /\ pc' = "done"

\* line 40: Credentials either accepts the user or raises
connect ==
    /\ pc = "connect"
    /\ \E accepted \in BOOLEAN :
          IF accepted
          THEN /\ cdse_api' = "creds"
               /\ err' = err
               /\ NextTile
          ELSE /\ cdse_api' = cdse_api
               /\ err' = "AuthError"
               /\ pc' = "aborted"
               /\ tile_i' = tile_i
    /\ UNCHANGED <<args, products, zip_files, fs, queries, runs, ret>>

\* lines 48-51
search_step ==
    /\ pc = "search"
    /\ \E r \in {search(cdse_api, [tile |-> CurrentTile, level |-> args.level,
                                   start |-> args.start, end |-> args.end,
                                   maxcloud |-> args.maxcloud, minsize |-> args.minsize,
                                   catalogue |-> Catalogue])} :
          /\ queries' = queries \o r.queries
          /\ err' = r.err
          /\ products' = r.df
          /\ IF r.err # "none" THEN pc' = "aborted" /\ tile_i' = tile_i
             ELSE IF Len(r.df) = 0 THEN NextTile
             ELSE pc' = "download" /\ tile_i' = tile_i
    /\ UNCHANGED <<cdse_api, args, zip_files, fs, runs, ret>>

\* lines 54-58
download_step ==
    /\ pc = "download"
    /\ \E outcomes \in [1..Len(products) -> Outcomes] :
          \E r \in {download(IF Exists(fs, TileDir) THEN fs ELSE makedirs(fs, TileDir),
                             products, TileDir, outcomes)} :
             /\ fs' = r.fs
             /\ err' = r.err
             /\ zip_files' = r.downloaded_files
             /\ runs' = Append(runs, [op |-> "download", tile |-> CurrentTile, dir |-> TileDir,
                                      handed |-> products,
                                      done |-> r.calls])
             /\ pc' = IF r.err # "none" THEN "aborted" ELSE "decompress"
    /\ UNCHANGED <<cdse_api, args, tile_i, products, queries, ret>>

\* line 61
decompress_step ==
    /\ pc = "decompress"
    /\ \E r \in {decompress(fs, zip_files, TileDir, args.remove)} :
          /\ fs' = r.fs
          /\ err' = r.err
          /\ runs' = Append(runs, [op |-> "decompress", tile |-> CurrentTile, dir |-> TileDir,
                                   handed |-> zip_files,
                                   done |-> r.extracted])
          /\ IF r.err # "none" THEN pc' = "aborted" /\ tile_i' = tile_i
             ELSE NextTile
    /\ UNCHANGED <<cdse_api, args, products, zip_files, queries, ret>>

Next == connect \/ search_step \/ download_step \/ decompress_step

Spec == Init /\ [][Next]_vars

(***************************************************************************)
(* Properties of the search stage, checked under SpecSearch.               *)
(***************************************************************************)
\* exactly two digits followed by exactly three uppercase letters
WellFormedTile(t) ==
    /\ Len(t) = 5
    /\ t[1] \in Digits /\ t[2] \in Digits
    /\ t[3] \in Uppers /\ t[4] \in Uppers /\ t[5] \in Uppers

\* C9: _validateTile returns true if and only if its input consists of exactly
\* two digits followed by exactly three uppercase letters and nothing else.
C9_ValidateTileExact ==
    ret.fn = "validateTile" => (ret.val = WellFormedTile(ret.arg))

\* C6: _search fails with a validation error and issues no query whenever the
\* tile is not two digits followed by three uppercase letters, or the level is
\* neither 1C nor 2A, or no authentication was performed before the call.
C6_SearchRejects ==
    (/\ ret.fn = "search"
     /\ \/ ~WellFormedTile(ret.arg.tile)
        \/ ret.arg.level \notin {L1C, L2A}
        \/ ret.api = "unset")
    => (err = "AssertionError" /\ queries = <<>>)

\* the exponent of the multiplier of a (lower-case) unit suffix
UnitExponent(suffix) ==
    IF suffix \in {kb, kib} THEN -3
    ELSE IF suffix \in {mb, mib} THEN 0
    ELSE IF suffix \in {gb, gib} THEN 3
    ELSE -6

\* the numeric value of a size string times the multiplier of its suffix
ValueTimesUnit(str) ==
    Dec(ParseFloat(Split(str, " ")[1]).m,
        ParseFloat(Split(str, " ")[1]).e + UnitExponent(Lower(Split(str, " ")[2])))

TitlesOf(df) == [i \in 1..Len(df) |-> df[i].title]

\* C7: the size in MB of a size string with a unit suffix is its numeric value
\* times the multiplier of the suffix (bytes when the suffix is not recognised),
\* and _search keeps exactly the records whose size is at least minsize.
C7_SizeParsing ==
    /\ ret.fn = "get_filesize" =>
          \A i \in 1..Len(ret.arg) :
             Len(Split(ret.arg[i], " ")) > 1 => DecEq(ret.val[i], ValueTimesUnit(ret.arg[i]))
    /\ (ret.fn = "search" /\ err = "none") =>
          TitlesOf(products) =
             TitlesOf(SelectSeq(query_features(ret.arg.catalogue, queries[1]),
                                LAMBDA f : DecGE(ValueTimesUnit(f.size), ret.arg.minsize)))

(***************************************************************************)
(* Properties of _download, checked under SpecDownload.                    *)
(***************************************************************************)
\* the archive and the extracted form of a product at a destination
ArchiveOf(dir, title) == NormPath(Slashed(dir, DropLast(title, 5) \o DotZip))

ListedTitles == {args.products_df[i].title : i \in 1..Len(args.products_df)}

Count(s, x) == Cardinality({i \in 1..Len(s) : s[i] = x})

\* C1 as stated: on the second of two runs in a row with the same product list
\* and destination, the remote download operation is never called.
C1_SecondRunNoCalls ==
    \A k \in 2..Len(runs) : runs[k].calls = <<>>

\* C1 as amended: the second run calls the remote download operation only for
\* products whose download failed in the first run; every other product is skipped.
C1_SecondRunCallsOnlyFailed ==
    \A k \in 2..Len(runs) :
       /\ Range(runs[k].calls) \subseteq Range(runs[k - 1].failed)
       /\ runs[k - 1].failed = <<>> => runs[k].calls = <<>>

C1_Witness ==
    \E k \in 2..Len(runs) :
       /\ runs[k - 1].calls # <<>>
       /\ runs[k - 1].failed = <<>>
       /\ runs[k].err = "none"
       /\ runs[k].examined = Len(args.products_df)
       /\ runs[k].calls = <<>>

C10_FailureSwallowed ==
    \A k \in 1..Len(runs) :
       \A t \in Range(runs[k].failed) :
          /\ runs[k].err = "none"
          /\ runs[k].examined = Len(args.products_df)
          /\ Count(runs[k].calls, t) = 1
          /\ \A j \in 1..Len(runs[k].returned) :
                NormPath(runs[k].returned[j]) # ArchiveOf(args.output_dir, t)
          /\ ArchiveOf(args.output_dir, t) \notin DOMAIN runs[k].after

C10_Witness ==
    \E k \in 1..Len(runs) :
       /\ Len(args.products_df) = 2
       /\ runs[k].failed = <<args.products_df[1].title>>
       /\ runs[k].calls = <<args.products_df[1].title, args.products_df[2].title>>
       /\ Len(runs[k].returned) = 1

(***************************************************************************)
(* Properties of _decompress, checked under SpecDecompress.                *)
(***************************************************************************)
\* the extracted form of an archive at a destination
SafeOf(dir, zip_file) == NormPath(Slashed(dir, DropLast(SplitLast(zip_file, "/"), 4) \o DotSAFE))

\* the precondition of _decompress: every path ends in the archive extension
AllZip == \A i \in 1..Len(args.zip_files) : TakeLast(args.zip_files[i], 4) = DotZip

\* C3: an archive of the list that is not well-formed and has no extracted form
\* is deleted, nothing is extracted for it, no error aborts the call and every
\* archive of the list is processed, whatever the level and the remove flag.
C3_BadArchiveDeleted ==
    \A k \in 1..Len(runs) : \A i \in 1..Len(args.zip_files) :
       (/\ AllZip
        /\ SafeOf(args.output_dir, args.zip_files[i]) \notin DOMAIN runs[k].before
        /\ NormPath(args.zip_files[i]) \in DOMAIN runs[k].before
        /\ runs[k].before[NormPath(args.zip_files[i])] = "bad")
       => /\ NormPath(args.zip_files[i]) \notin DOMAIN runs[k].after
          /\ SafeOf(args.output_dir, args.zip_files[i]) \notin DOMAIN runs[k].after
          /\ runs[k].err = "none"
          /\ runs[k].processed = Len(args.zip_files)

\* C4: for a well-formed archive of the list with no extracted form, of level
\* 1C or 2A: with remove set the extracted form exists and the archive is
\* deleted after the call, and the call goes on to the remaining archives;
\* with remove not set the archive is still on disk.
C4_RemoveAfterExtract ==
    \A k \in 1..Len(runs) : \A i \in 1..Len(args.zip_files) :
       (/\ AllZip
        /\ SafeOf(args.output_dir, args.zip_files[i]) \notin DOMAIN runs[k].before
        /\ NormPath(args.zip_files[i]) \in DOMAIN runs[k].before
        /\ runs[k].before[NormPath(args.zip_files[i])] = "zip")
       => /\ runs[k].remove =>
                /\ SafeOf(args.output_dir, args.zip_files[i]) \in DOMAIN runs[k].after
                /\ NormPath(args.zip_files[i]) \notin DOMAIN runs[k].after
                /\ runs[k].processed = Len(args.zip_files)
          /\ ~runs[k].remove => NormPath(args.zip_files[i]) \in DOMAIN runs[k].after

\* C8: on the second of two runs on the same archive list and destination,
\* nothing is extracted and no archive is deleted for an archive whose
\* extracted form exists at the destination.
C8_SecondRunSkipsExtracted ==
    \A k \in 2..Len(runs) : \A i \in 1..Len(args.zip_files) :
       SafeOf(args.output_dir, args.zip_files[i]) \in DOMAIN runs[k].before =>
          /\ args.zip_files[i] \notin Range(runs[k].extracted)
          /\ args.zip_files[i] \notin Range(runs[k].deleted)
          /\ (NormPath(args.zip_files[i]) \in DOMAIN runs[k].after)
                = (NormPath(args.zip_files[i]) \in DOMAIN runs[k].before)

C8_Witness ==
    \E k \in 2..Len(runs) : \E i \in 1..Len(args.zip_files) :
       /\ args.zip_files[i] \in Range(runs[k - 1].extracted)
       /\ NormPath(args.zip_files[i]) \in DOMAIN runs[k].before
       /\ runs[k].remove
       /\ runs[k].err = "none"
       /\ runs[k].processed = Len(args.zip_files)

(***************************************************************************)
(* Properties of the orchestrator, checked under Spec.                     *)
(***************************************************************************)
\* the catalogue records the query of the run returns for a tile
QueryResponse(tile) ==
    query_features(Catalogue,
                   [tileId |-> tile,
                    startDate |-> format_query_date(args.start).val,
                    completionDate |-> format_query_date(args.end).val,
                    productType |-> S2MSI \o args.level,
                    cloudCover |-> <<0, args.maxcloud>>])

\* a dataframe row that the query for the tile returned and that is large enough
Eligible(row, tile) ==
    /\ \E f \in Range(QueryResponse(tile)) : f.title = row.title /\ f.size = row.size
    /\ row.tile = tile
    /\ row.type = S2MSI \o args.level
    /\ row.cloud <= args.maxcloud
    /\ DecGE(row.filesize_mb, args.minsize)

\* C5: every product handed to _download and every archive handed to
\* _decompress belongs to a product of at least minsize MB that the query for
\* the tile being processed returned; nothing else is downloaded into or
\* extracted in the directory of the tile.
C5_OnlyEligibleProducts ==
    /\ pc \in {"download", "decompress"} =>
          /\ \A row \in Range(products) : Eligible(row, CurrentTile)
          /\ queries # <<>> /\ queries[Len(queries)].tileId = CurrentTile
    /\ \A k \in 1..Len(runs) :
          /\ runs[k].dir = Slashed(args.output_dir, runs[k].tile)
          /\ runs[k].op = "download" =>
                /\ \A row \in Range(runs[k].handed) : Eligible(row, runs[k].tile)
                /\ \A t \in Range(runs[k].done) :
                      \E row \in Range(runs[k].handed) : row.title = t /\ Eligible(row, runs[k].tile)
          /\ runs[k].op = "decompress" =>
                \A z \in Range(runs[k].handed) \cup Range(runs[k].done) :
                   \E f \in Range(QueryResponse(runs[k].tile)) :
                      /\ NormPath(z) = ArchiveOf(runs[k].dir, f.title)
                      /\ DecGE(get_filesize(<<f.size>>)[1], args.minsize)

C5_Witness ==
    /\ Len(runs) >= 4
    /\ runs[1].tile # runs[3].tile
    /\ runs[3].done # <<>>
    /\ runs[4].done # <<>>
    /\ args.minsize = Dec(25, 0)
    /\ \E f \in Range(Catalogue) :
          f.tile = runs[1].tile /\ ~DecGE(get_filesize(<<f.size>>)[1], args.minsize)

====
